---- MODULE Spec2Model ----
(***************************************************************************)
(* Model of the MIDI-to-chord-set converter (internal/converter).          *)
(*                                                                         *)
(* A file or folder name is a sequence of one-character strings.  The      *)
(* tree under setsFolder is the pre-order list of its entries, each with   *)
(* its depth; filepath.WalkDir visits a tree in exactly that order, the    *)
(* entries of one directory sorted by name.                                *)
(***************************************************************************)
EXTENDS Integers, Sequences, FiniteSets, TLC

(***************************************************************************)
(* Program constants (converter.go, const block).                          *)
(***************************************************************************)
baseNote == 60
maxSetFolderNameLen == 10
minChordNumber == 1
maxChordNumber == 12
maxSetNumber == 16
midiExtension == <<".", "m", "i", "d">>
baseChordName == <<"C", "h", "d">>
setsFolderName == <<"s", "e", "t", "s">>
version == "1.0.0"
typeID == "native-instruments-chord-set"

(***************************************************************************)
(* Bounds of the model.                                                    *)
(***************************************************************************)
\* longest file-name stem (the part before the extension) the parser is tried on
MaxStem == 5
\* longest note-on event list the note extractor is tried on
MaxEvents == 4
\* most entries of a freely shaped tree under setsFolder
MaxEntries == 3
\* set folders put in front of a small tree (to reach maxSetNumber)
MaxPad == 16
\* most entries of the small tree that follows those set folders
MaxTail == 2

(***************************************************************************)
(* Characters.  Ascii lists the one-byte characters the model uses in byte *)
(* order, so that names compare as Go compares strings.  EAcute is a       *)
(* character of two bytes in UTF-8 (C3 A9): it sorts after every one-byte  *)
(* character.                                                              *)
(***************************************************************************)
LF == "\n"
TAB == "\t"
EAcute == "é"
Ascii ==
  <<TAB, LF, " ", "#", ".",
    "0", "1", "2", "3", "4", "5", "6", "7", "8", "9",
    "C", "S", "T", "U",
    "a", "b", "d", "e", "f", "g", "h", "i", "l", "m", "n", "o", "r", "s", "t", "x">>
Code(c) == IF c = EAcute THEN Len(Ascii) + 1 ELSE CHOOSE i \in 1..Len(Ascii) : Ascii[i] = c
\* the builtin len of a string: its length in bytes
len(s) == Len(s) + Cardinality({i \in 1..Len(s) : s[i] = EAcute})
Digits == <<"0", "1", "2", "3", "4", "5", "6", "7", "8", "9">>
\* regexp class \d: the ASCII digits
IsDigit(c) == \E i \in 1..Len(Digits) : Digits[i] = c
DigitVal(c) == (CHOOSE i \in 1..Len(Digits) : Digits[i] = c) - 1
\* unicode.IsSpace, on the characters of the model
IsSpace(c) == c \in {" ", TAB, LF}
\* regexp "." without the s flag: any character but a line feed
DotMatches(c) == c # LF

RECURSIVE StrLess(_, _)
\* s < t for Go strings: byte-wise lexical order
StrLess(s, t) ==
  IF t = <<>> THEN FALSE
  ELSE IF s = <<>> THEN TRUE
  ELSE IF Head(s) # Head(t) THEN Code(Head(s)) < Code(Head(t))
  ELSE StrLess(Tail(s), Tail(t))

\* strings.HasSuffix
HasSuffix(s, suffix) ==
  /\ Len(s) >= Len(suffix)
  /\ SubSeq(s, Len(s) - Len(suffix) + 1, Len(s)) = suffix

RECURSIVE TrimLeft(_)
TrimLeft(s) == IF s # <<>> /\ IsSpace(Head(s)) THEN TrimLeft(Tail(s)) ELSE s
RECURSIVE TrimRight(_)
TrimRight(s) ==
  IF s # <<>> /\ IsSpace(s[Len(s)]) THEN TrimRight(SubSeq(s, 1, Len(s) - 1)) ELSE s
\* strings.TrimSpace
TrimSpace(s) == TrimRight(TrimLeft(s))

RECURSIVE Atoi(_)
\* strconv.Atoi on a string of ASCII digits
Atoi(s) == IF s = <<>> THEN 0 ELSE 10 * Atoi(SubSeq(s, 1, Len(s) - 1)) + DigitVal(s[Len(s)])

RECURSIVE Itoa(_)
\* fmt's %d of a non-negative integer
Itoa(n) == IF n < 10 THEN <<Digits[n + 1]>> ELSE Itoa(n \div 10) \o <<Digits[(n % 10) + 1]>>

(***************************************************************************)
(* re = ^(\d{1,2}) (.+?)\.mid$                                             *)
(* A way to match s is a pair <<d, l>>: d digits, one space, l characters  *)
(* matched by ".", then ".mid" up to the end of the text.                  *)
(***************************************************************************)
reMatches(s) ==
  {w \in (1..2) \X (1..Len(s)) :
     /\ w[1] + 1 + w[2] + Len(midiExtension) = Len(s)
     /\ \A i \in 1..w[1] : IsDigit(s[i])
     /\ s[w[1] + 1] = " "
     /\ \A i \in (w[1] + 2)..(w[1] + 1 + w[2]) : DotMatches(s[i])
     /\ SubSeq(s, w[1] + w[2] + 2, Len(s)) = midiExtension}

\* re.FindStringSubmatch(s): <<>> when nothing matches, else the full match and the
\* two groups; \d{1,2} is greedy (the most digits first), .+? is lazy (the fewest
\* characters first)
FindStringSubmatch(s) ==
  IF reMatches(s) = {} THEN <<>>
  ELSE LET w == CHOOSE v \in reMatches(s) :
                  \A u \in reMatches(s) :
                     \/ v[1] > u[1]
                     \/ (v[1] = u[1] /\ v[2] <= u[2])
       IN <<s, SubSeq(s, 1, w[1]), SubSeq(s, w[1] + 2, w[1] + 1 + w[2])>>

\* re.NumSubexp()
NumSubexp == 2

\* parseChordFileName without the strings.TrimSpace
parseChordFileName_NoTrim(fileName) ==
  LET match == FindStringSubmatch(fileName) IN
  IF Len(match) # NumSubexp + 1
    THEN [number |-> 0, name |-> <<>>, err |-> "invalid file name"]
    ELSE [number |-> Atoi(match[2]), name |-> match[3], err |-> "nil"]

\* parseChordFileName: (number, name, err)
parseChordFileName(fileName) ==
  LET match == FindStringSubmatch(fileName) IN
  IF Len(match) # NumSubexp + 1
    THEN [number |-> 0, name |-> <<>>, err |-> "invalid file name"]
    ELSE [number |-> Atoi(match[2]), name |-> TrimSpace(match[3]), err |-> "nil"]

(***************************************************************************)
(* MIDI content.  A .mid file is the list of note-on events (key, vel)     *)
(* reader.ReadSMFFile delivers to the NoteOn callback, and whether the     *)
(* read then ends without error.                                           *)
(***************************************************************************)
Event(key, vel) == [key |-> key, vel |-> vel]
Midi(events, ok) == [events |-> events, ok |-> ok]

RECURSIVE noteOn_NoSeen(_, _)
\* the NoteOn callback without the seen map
noteOn_NoSeen(events, notes) ==
  IF events = <<>> THEN notes
  ELSE LET e == Head(events) IN
       IF e.vel > 0
         THEN noteOn_NoSeen(Tail(events), Append(notes, e.key))
         ELSE noteOn_NoSeen(Tail(events), notes)

RECURSIVE noteOn(_, _)
\* the NoteOn callback applied to the events in file order: the keys with vel > 0,
\* each at its first occurrence (notes doubles as the seen map's key set)
noteOn(events, notes) ==
  IF events = <<>> THEN notes
  ELSE LET e == Head(events) IN
       IF e.vel > 0 /\ ~(\E i \in 1..Len(notes) : notes[i] = e.key)
         THEN noteOn(Tail(events), Append(notes, e.key))
         ELSE noteOn(Tail(events), notes)

\* readChordNotes going on after a failed read, the error dropped
readChordNotes_ErrorDropped(midi) ==
  LET notes == noteOn(midi.events, <<>>) IN
  [notes |-> [i \in 1..Len(notes) |-> notes[i] - baseNote], err |-> "nil"]

\* readChordNotes: (relative notes, err)
readChordNotes(midi) ==
  LET notes == noteOn(midi.events, <<>>) IN
  IF ~midi.ok
    THEN [notes |-> notes, err |-> "failed to read MIDI file"]
    ELSE [notes |-> [i \in 1..Len(notes) |-> notes[i] - baseNote], err |-> "nil"]

RECURSIVE Insert(_, _)
Insert(x, sorted) ==
  IF sorted = <<>> THEN <<x>>
  ELSE IF x <= Head(sorted) THEN <<x>> \o sorted
  ELSE <<Head(sorted)>> \o Insert(x, Tail(sorted))
RECURSIVE Sort(_)
\* slices.Sort on []int
Sort(s) == IF s = <<>> THEN <<>> ELSE Insert(Head(s), Sort(Tail(s)))

(***************************************************************************)
(* Chords and chord sets.                                                  *)
(***************************************************************************)
Chord(name, notes) == [Name |-> name, Notes |-> notes]

\* the default chords named from i instead of i+1: "Chd 0" .. "Chd 11"
defaultChords_FromZero ==
  [i \in 1..maxChordNumber |-> Chord(baseChordName \o <<" ">> \o Itoa(i - 1), <<>>)]

\* the default chords of processOneSetFolder: "Chd 1" .. "Chd 12", no notes
defaultChords ==
  [i \in 1..maxChordNumber |-> Chord(baseChordName \o <<" ">> \o Itoa(i), <<>>)]

\* the chord written without the slices.Sort
newChord_Unsorted(chordName, chordNotes) == Chord(chordName, chordNotes)

\* the chord written to a slot from a file's parsed name and its notes
newChord(chordName, chordNotes) == Chord(chordName, Sort(chordNotes))

\* the ChordSet appended for a folder (the random UUID is not modelled: nothing
\* in the converter reads it)
newChordSet(chords, setName) ==
  [Chords |-> chords, Name |-> setName, TypeID |-> typeID, Version |-> version]

\* the skip test without the test of the name
skipChord_AnyName(chordNumber, chordName) ==
  \/ chordNumber < minChordNumber
  \/ chordNumber > maxChordNumber
  \/ chordNumber = 0

\* the skip test of processOneSetFolder on a parsed name
skipChord(chordNumber, chordName) ==
  \/ chordNumber < minChordNumber
  \/ chordNumber > maxChordNumber
  \/ chordNumber = 0
  \/ chordName = <<>>

\* the output file numbered i instead of i+1
outFileName_FromZero(i) ==
  <<"u", "s", "e", "r", "_", "c", "h", "o", "r", "d", "_", "s", "e", "t", "_", "0">>
    \o Itoa(i) \o <<".", "j", "s", "o", "n">>

\* base name of the i-th output file (i counted from 0): "user_chord_set_0%d.json"
outFileName(i) ==
  <<"u", "s", "e", "r", "_", "c", "h", "o", "r", "d", "_", "s", "e", "t", "_", "0">>
    \o Itoa(i + 1) \o <<".", "j", "s", "o", "n">>

(***************************************************************************)
(* The tree under setsFolder: its entries in pre-order (the order of       *)
(* filepath.WalkDir), each with its depth below the root.  ok says, for a  *)
(* directory, that os.ReadDir succeeds on it and, for a file, that         *)
(* reader.ReadSMFFile succeeds on it.                                      *)
(***************************************************************************)
DirEntry(depth, name, ok) ==
  [depth |-> depth, isDir |-> TRUE, name |-> name, ok |-> ok, events |-> <<>>]
FileEntry(depth, name, midi) ==
  [depth |-> depth, isDir |-> FALSE, name |-> name, ok |-> midi.ok, events |-> midi.events]

\* the last entry of the subtree rooted at entry k of tree t
SubtreeEnd(t, k) ==
  CHOOSE j \in k..Len(t) :
    /\ \A i \in (k + 1)..j : t[i].depth > t[k].depth
    /\ j = Len(t) \/ t[j + 1].depth <= t[k].depth

\* entry j is the sibling listed just before entry k
PrevSibling(t, j, k) ==
  /\ j < k
  /\ t[j].depth = t[k].depth
  /\ \A i \in (j + 1)..(k - 1) : t[i].depth > t[k].depth

\* t is the pre-order listing of a directory tree as WalkDir finds it: children
\* only below readable directories, the names in a directory in ascending order
IsTree(t) ==
  /\ t # <<>> => t[1].depth = 1
  /\ \A k \in 2..Len(t) :
       /\ t[k].depth >= 1
       /\ t[k].depth <= t[k - 1].depth + 1
       /\ t[k].depth = t[k - 1].depth + 1 => t[k - 1].isDir /\ t[k - 1].ok
  /\ \A j, k \in 1..Len(t) : PrevSibling(t, j, k) => StrLess(t[j].name, t[k].name)

(***************************************************************************)
(* The names and MIDI contents the trees of the model are built from.      *)
(***************************************************************************)
EvA == <<Event(64, 80), Event(60, 80), Event(64, 0), Event(67, 90)>>
EvB == <<Event(62, 90), Event(55, 80)>>
Unreadable == Midi(<<Event(60, 80)>>, FALSE)

DirNames ==
  { <<"S">>, <<"T">>, setsFolderName,
    \* 11 characters
    <<"l", "o", "n", "g", " ", "f", "o", "l", "d", "e", "r">>,
    \* 10 characters, 12 bytes
    <<EAcute, "t", EAcute, " ", "d", "o", "r", "i", "e", "n">> }

Files ==
  { \* accepted names, both for slot 3
    [name |-> <<"0", "3", " ", "b", ".", "m", "i", "d">>, midi |-> Midi(EvB, TRUE)],
    [name |-> <<"3", " ", "a", ".", "m", "i", "d">>, midi |-> Midi(EvA, TRUE)],
    \* an accepted name, content that does not read
    [name |-> <<"3", " ", "b", ".", "m", "i", "d">>, midi |-> Unreadable],
    \* two spaces after the number
    [name |-> <<"3", " ", " ", "a", ".", "m", "i", "d">>, midi |-> Midi(EvB, TRUE)],
    \* no number
    [name |-> <<"x", ".", "m", "i", "d">>, midi |-> Midi(EvA, TRUE)],
    \* slot 13, slot 0, and a label of one space
    [name |-> <<"1", "3", " ", "a", ".", "m", "i", "d">>, midi |-> Unreadable],
    [name |-> <<"0", " ", "a", ".", "m", "i", "d">>, midi |-> Unreadable],
    [name |-> <<"3", " ", " ", ".", "m", "i", "d">>, midi |-> Unreadable],
    \* not a .mid file
    [name |-> <<"n", ".", "t", "x", "t">>, midi |-> Unreadable] }

EntriesAt(depth) ==
  {DirEntry(depth, n, TRUE) : n \in DirNames}
    \cup {DirEntry(depth, <<"U">>, FALSE)}
    \cup {FileEntry(depth, f.name, f.midi) : f \in Files}

Entries == UNION {EntriesAt(d) : d \in 1..MaxEntries}

\* what follows the MaxPad set folders: one more set folder, and .mid files with
\* an accepted name, with contents that do not read, and with a name that does
\* not parse
TailEntriesAt(depth) ==
  {DirEntry(depth, <<"S">>, TRUE)}
    \cup {FileEntry(depth, f.name, f.midi) :
            f \in {g \in Files : g.name \in { <<"3", " ", "a", ".", "m", "i", "d">>,
                                              <<"3", " ", "b", ".", "m", "i", "d">>,
                                              <<"x", ".", "m", "i", "d">> }}}
TailEntries == UNION {TailEntriesAt(d) : d \in 1..(MaxTail + 1)}

\* k set folders "#00", "#01", ...: they sort before every other name
PadName(i) == <<"#">> \o (IF i < 10 THEN <<"0">> ELSE <<>>) \o Itoa(i)
Pad(k) == [i \in 1..k |-> DirEntry(1, PadName(i - 1), TRUE)]
IsPad(e) == Head(e.name) = "#"
PadCount(t) == Cardinality({i \in 1..Len(t) : IsPad(t[i])})

\* the trees a run starts from: up to MaxEntries entries, or MaxPad such set
\* folders followed by up to MaxTail entries
Pads == {<<>>, Pad(MaxPad)}
Roomy(t) ==
  IF PadCount(t) = 0 THEN Len(t) < MaxEntries ELSE Len(t) < PadCount(t) + MaxTail

(***************************************************************************)
(* State.                                                                  *)
(*   fs, rootOk  the tree under setsFolder, and whether the root reads     *)
(*   pc          where Run is: "start", "outer" (the walk of               *)
(*               processSetsFolder), "inner" (the walk of                  *)
(*               processOneSetFolder), "output" (outputJsonFiles), "done"  *)
(*               (Run returned nil), "failed" (Run returned err)           *)
(*   opos, ipos  the entry the outer and the inner walk are at (0: root)   *)
(*   chords      the chords slice of the processOneSetFolder in progress   *)
(*   chordSets   Converter.chordSets                                       *)
(*   written     the os.WriteFile calls that succeeded, in order           *)
(*   err         the error Run returns ("nil": none)                       *)
(*   stdout      the set names of the "processing set: ..." lines printed  *)
(*   arg, ret    argument and result of a function applied on its own      *)
(***************************************************************************)
VARIABLES fs, rootOk, pc, opos, ipos, chords, chordSets, written, err, stdout, arg, ret

vars == <<fs, rootOk, pc, opos, ipos, chords, chordSets, written, err, stdout, arg, ret>>
tree == <<fs, rootOk>>
call == <<arg, ret>>

\* New(): no chord sets yet
New ==
  /\ pc = "start"
  /\ opos = 0
  /\ ipos = 0
  /\ chords = <<>>
  /\ chordSets = <<>>
  /\ written = <<>>
  /\ err = "nil"
  /\ stdout = <<>>

Init ==
  /\ \/ fs \in Pads /\ rootOk = TRUE
     \/ fs = <<>> /\ rootOk = FALSE
  /\ New
  /\ arg = <<>>
  /\ ret = <<>>

\* Run returns e
Fail(e) ==
  /\ pc' = "failed"
  /\ err' = e

(***************************************************************************)
(* Before Run: the user puts one more entry under setsFolder.              *)
(***************************************************************************)
addEntry ==
  /\ pc = "start"
  /\ rootOk
  /\ Roomy(fs)
  /\ fs' \in {t \in {Append(fs, e) : e \in IF PadCount(fs) = 0 THEN Entries ELSE TailEntries} :
              IsTree(t)}
  /\ UNCHANGED <<rootOk, pc, opos, ipos, chords, chordSets, written, err, stdout, call>>

(***************************************************************************)
(* Run, step 1: getSetsFolder.                                             *)
(***************************************************************************)
getSetsFolder ==
  /\ pc = "start"
  /\ \E executableOk \in BOOLEAN :
       IF executableOk
         THEN pc' = "outer" /\ UNCHANGED err
         ELSE Fail("error determining executable path")
  /\ UNCHANGED <<tree, opos, ipos, chords, chordSets, written, stdout, call>>

(***************************************************************************)
(* Run, step 2: processSetsFolder, one action per call of its callback.    *)
(***************************************************************************)
\* the test of the callback that sends an entry to processOneSetFolder
\* (path != c.setsFolder holds of every entry below the root)
isSetFolder(e) ==
  /\ e.isDir
  /\ len(e.name) <= maxSetFolderNameLen
  /\ e.name # setsFolderName

\* no early return at all
setsFull_Never(sets) == FALSE

\* the early return taken one chord set late
setsFull_OneLate(sets) == Len(sets) > maxSetNumber

\* the early return of processOneSetFolder
setsFull(sets) == Len(sets) >= maxSetNumber

\* the outer callback returned nil for entry opos: WalkDir reads the entry if it
\* is a directory, calls back with the error if that fails (the callback returns
\* it), and else goes on to the next entry in pre-order
outerNext ==
  IF opos >= 1 /\ fs[opos].isDir /\ ~fs[opos].ok
    THEN Fail("directory traversal error") /\ UNCHANGED opos
    ELSE pc' = "outer" /\ opos' = opos + 1 /\ UNCHANGED err

\* the callback on the root: a directory, but path = c.setsFolder
walkRoot ==
  /\ pc = "outer"
  /\ opos = 0
  /\ IF rootOk
       THEN opos' = 1 /\ UNCHANGED <<pc, err>>
       ELSE Fail("directory traversal error") /\ UNCHANGED opos
  /\ UNCHANGED <<tree, ipos, chords, chordSets, written, stdout, call>>

\* the callback on an entry that is no set folder
walkOther ==
  /\ pc = "outer"
  /\ opos \in 1..Len(fs)
  /\ ~isSetFolder(fs[opos])
  /\ outerNext
  /\ UNCHANGED <<tree, ipos, chords, chordSets, written, stdout, call>>

\* the callback on a set folder when processOneSetFolder, its line printed,
\* returns at once
setFolderFull ==
  /\ pc = "outer"
  /\ opos \in 1..Len(fs)
  /\ isSetFolder(fs[opos])
  /\ stdout' = Append(stdout, fs[opos].name)
  /\ setsFull(chordSets)
  /\ outerNext
  /\ UNCHANGED <<tree, ipos, chords, chordSets, written, call>>

\* the callback on a set folder: processOneSetFolder prints its line,
\* initializes chords and starts its own walk at the folder
setFolderBegin ==
  /\ pc = "outer"
  /\ opos \in 1..Len(fs)
  /\ isSetFolder(fs[opos])
  /\ stdout' = Append(stdout, fs[opos].name)
  /\ ~setsFull(chordSets)
  /\ pc' = "inner"
  /\ ipos' = opos
  /\ chords' = defaultChords
  /\ UNCHANGED <<tree, opos, chordSets, written, err, call>>

\* the walk is over: processSetsFolder returns nil
walkDone ==
  /\ pc = "outer"
  /\ opos > Len(fs)
  /\ pc' = "output"
  /\ UNCHANGED <<tree, opos, ipos, chords, chordSets, written, err, stdout, call>>

(***************************************************************************)
(* processOneSetFolder on the set folder at opos, one action per call of   *)
(* its callback; the walk visits the folder itself, then its subtree.      *)
(***************************************************************************)
\* the walk of the folder has entries left
inFolder == ipos <= SubtreeEnd(fs, opos)

\* the callback's first test: neither a directory nor a name without ".mid"
isChordFile(e) == ~e.isDir /\ HasSuffix(e.name, midiExtension)

\* lines 169-179 writing only to a slot that still has its default chord
fillChord_KeepFirst(old, chordNumber, chordName, midi) ==
  LET read == readChordNotes(midi) IN
  IF read.err # "nil"
    THEN [chords |-> old, err |-> read.err]
    ELSE [chords |-> IF old[chordNumber] = defaultChords[chordNumber]
                       THEN [old EXCEPT ![chordNumber] = newChord(chordName, read.notes)]
                       ELSE old,
          err |-> "nil"]

\* lines 169-179 on a parsed name that is not skipped: the chords after the file,
\* or the error of readChordNotes
fillChord(old, chordNumber, chordName, midi) ==
  LET read == readChordNotes(midi) IN
  IF read.err # "nil"
    THEN [chords |-> old, err |-> read.err]
    ELSE [chords |-> [old EXCEPT ![chordNumber] = newChord(chordName, read.notes)],
          err |-> "nil"]

\* the error of processOneSetFolder dropped by Run, which goes on to
\* outputJsonFiles
folderFails_RunGoesOn(e) ==
  /\ pc' = "output"
  /\ chords' = <<>>
  /\ UNCHANGED <<tree, opos, ipos, chordSets, written, err, stdout, call>>

\* processOneSetFolder returns an error: so do processSetsFolder and Run
folderFails(e) ==
  /\ Fail(e)
  /\ chords' = <<>>
  /\ UNCHANGED <<tree, opos, ipos, chordSets, written, stdout, call>>

\* the callback on a directory or on a file without ".mid": nil; a directory
\* that does not read comes back with the error, which the callback returns
skipEntry ==
  /\ pc = "inner"
  /\ inFolder
  /\ ~isChordFile(fs[ipos])
  /\ IF fs[ipos].isDir /\ ~fs[ipos].ok
       THEN folderFails("directory traversal error")
       ELSE /\ ipos' = ipos + 1
            /\ UNCHANGED <<tree, pc, opos, chords, chordSets, written, err, stdout, call>>

\* the callback on a .mid file whose name parseChordFileName rejects: return err
parseError ==
  /\ pc = "inner"
  /\ inFolder
  /\ isChordFile(fs[ipos])
  /\ LET p == parseChordFileName(fs[ipos].name) IN
       /\ p.err # "nil"
       /\ folderFails(p.err)

\* the callback on a .mid file with a number out of range or an empty name
skipFile ==
  /\ pc = "inner"
  /\ inFolder
  /\ isChordFile(fs[ipos])
  /\ LET p == parseChordFileName(fs[ipos].name) IN
       /\ p.err = "nil"
       /\ skipChord(p.number, p.name)
  /\ ipos' = ipos + 1
  /\ UNCHANGED <<tree, pc, opos, chords, chordSets, written, err, stdout, call>>

\* the callback on an accepted .mid file that readChordNotes cannot read
readError ==
  /\ pc = "inner"
  /\ inFolder
  /\ isChordFile(fs[ipos])
  /\ LET p == parseChordFileName(fs[ipos].name)
         f == fillChord(chords, p.number, p.name, fs[ipos])
     IN /\ p.err = "nil"
        /\ ~skipChord(p.number, p.name)
        /\ f.err # "nil"
        /\ folderFails(f.err)

\* the callback on an accepted .mid file: its chord goes to its slot
setChord ==
  /\ pc = "inner"
  /\ inFolder
  /\ isChordFile(fs[ipos])
  /\ LET p == parseChordFileName(fs[ipos].name)
         f == fillChord(chords, p.number, p.name, fs[ipos])
     IN /\ p.err = "nil"
        /\ ~skipChord(p.number, p.name)
        /\ f.err = "nil"
        /\ chords' = f.chords
  /\ ipos' = ipos + 1
  /\ UNCHANGED <<tree, pc, opos, chordSets, written, err, stdout, call>>

\* the walk of the folder is over: the chord set is appended, processOneSetFolder
\* returns nil and the outer walk goes on below the folder
appendSet ==
  /\ pc = "inner"
  /\ ~inFolder
  /\ chordSets' = Append(chordSets, newChordSet(chords, fs[opos].name))
  /\ chords' = <<>>
  /\ pc' = "outer"
  /\ opos' = opos + 1
  /\ UNCHANGED <<tree, ipos, written, err, stdout, call>>

(***************************************************************************)
(* Run, step 3: outputJsonFiles, one action per turn of its loop.  The     *)
(* data written is the JSON of the chord set; the model keeps the chord    *)
(* set itself.                                                             *)
(***************************************************************************)
writeFile ==
  /\ pc = "output"
  /\ Len(written) < Len(chordSets)
  /\ \E writeOk \in BOOLEAN :
       IF writeOk
         THEN /\ written' = Append(written, [file |-> outFileName(Len(written)),
                                             data |-> chordSets[Len(written) + 1]])
              /\ UNCHANGED <<pc, err>>
         ELSE Fail("error writing JSON file") /\ UNCHANGED written
  /\ UNCHANGED <<tree, opos, ipos, chords, chordSets, stdout, call>>

\* the loop is over: outputJsonFiles and Run return nil
runDone ==
  /\ pc = "output"
  /\ Len(written) = Len(chordSets)
  /\ pc' = "done"
  /\ UNCHANGED <<tree, opos, ipos, chords, chordSets, written, err, stdout, call>>

Next ==
  \/ addEntry
  \/ getSetsFolder
  \/ walkRoot
  \/ walkOther
  \/ setFolderFull
  \/ setFolderBegin
  \/ walkDone
  \/ skipEntry
  \/ parseError
  \/ skipFile
  \/ readError
  \/ setChord
  \/ appendSet
  \/ writeFile
  \/ runDone

Spec == Init /\ [][Next]_vars

TypeOK ==
  /\ pc \in {"start", "outer", "inner", "output", "done", "failed"}
  /\ IsTree(fs)
  /\ opos \in 0..(Len(fs) + 1)
  /\ ipos \in 0..(Len(fs) + 1)
  /\ Len(chordSets) <= Len(fs)
  /\ Len(written) <= Len(chordSets)
  /\ (err = "nil") = (pc # "failed")

(***************************************************************************)
(* parseChordFileName on its own, applied to every name made of a stem of  *)
(* up to MaxStem characters and an ending.                                 *)
(***************************************************************************)
StemChars == {"0", "1", " ", "a", LF, TAB}
Endings == {<<>>, midiExtension, midiExtension \o <<"a">>, midiExtension \o midiExtension}

\* every variable of Run, at rest
Idle ==
  /\ fs = <<>>
  /\ rootOk = TRUE
  /\ opos = 0
  /\ ipos = 0
  /\ chords = <<>>
  /\ chordSets = <<>>
  /\ written = <<>>
  /\ err = "nil"
  /\ stdout = <<>>

ParseInit ==
  /\ Idle
  /\ pc = "call"
  /\ arg = <<>>
  /\ ret = <<>>

\* one more character of the stem
ParseType ==
  /\ pc = "call"
  /\ Len(arg) < MaxStem
  /\ \E c \in StemChars : arg' = Append(arg, c)
  /\ UNCHANGED <<tree, pc, opos, ipos, chords, chordSets, written, err, stdout, ret>>

\* the stem gets its ending and the name is parsed
ParseCall ==
  /\ pc = "call"
  /\ \E ending \in Endings :
       /\ arg' = arg \o ending
       /\ ret' = parseChordFileName(arg \o ending)
  /\ pc' = "return"
  /\ UNCHANGED <<tree, opos, ipos, chords, chordSets, written, err, stdout>>

ParseNext == ParseType \/ ParseCall

ParseSpec == ParseInit /\ [][ParseNext]_vars

(***************************************************************************)
(* The chord stored from a file (readChordNotes, slices.Sort, the write to *)
(* the slot) on its own, applied to every list of up to MaxEvents note-on  *)
(* events, for a read that succeeds and one that fails after them.         *)
(***************************************************************************)
Keys == {55, 60, 64, 67}
Velocities == {0, 80, 90}
NotesName == <<"a">>

NotesInit ==
  /\ Idle
  /\ pc = "call"
  /\ arg = <<>>
  /\ ret = <<>>

\* one more note-on event in the file
NotesEvent ==
  /\ pc = "call"
  /\ Len(arg) < MaxEvents
  /\ \E k \in Keys, v \in Velocities : arg' = Append(arg, Event(k, v))
  /\ UNCHANGED <<tree, pc, opos, ipos, chords, chordSets, written, err, stdout, ret>>

NotesCall ==
  /\ pc = "call"
  /\ \E readOk \in BOOLEAN, chordNumber \in {minChordNumber, maxChordNumber} :
       ret' = [chordNumber |-> chordNumber,
               readOk |-> readOk,
               result |-> fillChord(defaultChords, chordNumber, NotesName,
                                    Midi(arg, readOk))]
  /\ pc' = "return"
  /\ UNCHANGED <<tree, opos, ipos, chords, chordSets, written, err, stdout, arg>>

NotesNext == NotesEvent \/ NotesCall

NotesSpec == NotesInit /\ [][NotesNext]_vars

(***************************************************************************)
(* Vocabulary of the properties, stated on names and trees without the     *)
(* operators of the converter.                                             *)
(***************************************************************************)
DotMid == <<".", "m", "i", "d">>
EndsInDotMid(s) == Len(s) >= 4 /\ SubSeq(s, Len(s) - 3, Len(s)) = DotMid

\* s is d digits, one space, a label of one or more characters, ".mid"
HasShape(s, d) ==
  /\ Len(s) >= d + 6
  /\ \A i \in 1..d : s[i] \in {"0", "1", "2", "3", "4", "5", "6", "7", "8", "9"}
  /\ s[d + 1] = " "
  /\ EndsInDotMid(s)
Shaped(s) == HasShape(s, 1) \/ HasShape(s, 2)
ShapeDigits(s) == IF HasShape(s, 1) THEN 1 ELSE 2
ShapeLabel(s) == SubSeq(s, ShapeDigits(s) + 2, Len(s) - 4)
DecimalValue(c) ==
  CASE c = "0" -> 0 [] c = "1" -> 1 [] c = "2" -> 2 [] c = "3" -> 3 [] c = "4" -> 4
    [] c = "5" -> 5 [] c = "6" -> 6 [] c = "7" -> 7 [] c = "8" -> 8 [] c = "9" -> 9
ShapeNumber(s) ==
  IF HasShape(s, 1) THEN DecimalValue(s[1])
  ELSE 10 * DecimalValue(s[1]) + DecimalValue(s[2])
Blank(c) == c \in {" ", TAB, LF}
\* t is label l without its leading and trailing whitespace
IsTrimOf(t, l) ==
  \E i \in 1..(Len(l) + 1), j \in 0..Len(l) :
    /\ t = SubSeq(l, i, j)
    /\ \A k \in 1..(i - 1) : Blank(l[k])
    /\ \A k \in (j + 1)..Len(l) : Blank(l[k])
    /\ t # <<>> => ~Blank(t[1]) /\ ~Blank(t[Len(t)])
\* the names the parser takes: the label has no line feed
Parses(s) == Shaped(s) /\ \A k \in 1..Len(ShapeLabel(s)) : ShapeLabel(s)[k] # LF
\* the names the builder takes: a slot of 1..12 and a label that is not blank
Accepted(s) ==
  /\ Parses(s)
  /\ ShapeNumber(s) \in 1..12
  /\ \E k \in 1..Len(ShapeLabel(s)) : ~Blank(ShapeLabel(s)[k])
\* the names that parse and the builder passes over
Rejected(s) ==
  /\ Parses(s)
  /\ \/ ShapeNumber(s) \notin 1..12
     \/ \A k \in 1..Len(ShapeLabel(s)) : Blank(ShapeLabel(s)[k])

\* the placeholders of the slots
Placeholders ==
  [i \in 1..12 |->
     [Name |-> <<"C", "h", "d", " ">> \o
               << <<"1">>, <<"2">>, <<"3">>, <<"4">>, <<"5">>, <<"6">>, <<"7">>, <<"8">>,
                  <<"9">>, <<"1", "0">>, <<"1", "1">>, <<"1", "2">> >>[i],
      Notes |-> <<>>]]
Placeholder(i) == Placeholders[i]

\* the bytes of a name in UTF-8: the model's only character of two bytes is the
\* e with acute accent
Utf8Bytes(name) == Len(name) + Cardinality({i \in 1..Len(name) : name[i] = "é"})
\* the set folders of the tree as the driver takes them (a name of at most 10
\* bytes), in traversal order
IsQualifying(e) ==
  e.isDir /\ Utf8Bytes(e.name) <= 10 /\ e.name # <<"s", "e", "t", "s">>
Qualifying ==
  SelectSeq([i \in 1..Len(fs) |-> i], LAMBDA i : IsQualifying(fs[i]))
\* the entries below entry j
Below(j) ==
  {i \in (j + 1)..Len(fs) : \A m \in (j + 1)..i : fs[m].depth > fs[j].depth}
\* the files below entry j that the builder takes
Takes(j) == {f \in Below(j) : ~fs[f].isDir /\ Accepted(fs[f].name)}
\* a chord set has just been appended
Appended == Len(chordSets') = Len(chordSets) + 1
\* the folder of the k-th chord set
FolderOf(k) == Qualifying[k]
\* a callback of the builder is about to run on a file
AtFile == pc = "inner" /\ ipos \in Below(opos) /\ ~fs[ipos].isDir
\* the builder went on to the next entry of the folder, no slot changed
PassedOver ==
  /\ pc' = "inner"
  /\ ipos' = ipos + 1
  /\ chords' = chords
  /\ chordSets' = chordSets
  /\ err' = "nil"

(***************************************************************************)
(* C1.  A .mid file whose name does not match "<1-2 digits> <label>.mid"   *)
(* is skipped: the build of its folder goes on with the next entry, with   *)
(* no error.  The converter returns the parse error instead, which ends    *)
(* the build and the run.                                                  *)
(***************************************************************************)
C1_BadNameSkipped ==
  [][AtFile /\ EndsInDotMid(fs[ipos].name) /\ ~Shaped(fs[ipos].name) => PassedOver]_vars

(***************************************************************************)
(* C2.  Every chord set appended has exactly 12 chords, and each slot that *)
(* no accepted file of its folder targets is "Chd <slot>" with no notes.   *)
(***************************************************************************)
C2_TwelveChords ==
  [][Appended =>
       LET k == Len(chordSets')
           new == chordSets'[k].Chords
           files == Takes(FolderOf(k))
       IN /\ DOMAIN new = 1..12
          /\ \A i \in 1..12 :
               (\A f \in files : ShapeNumber(fs[f].name) # i) => new[i] = Placeholder(i)]_vars

C2_Witness ==
  \E k \in 1..Len(chordSets) :
    /\ \E f \in Takes(FolderOf(k)) : ShapeNumber(fs[f].name) = 3
    /\ chordSets[k].Chords[3] # Placeholder(3)
    /\ chordSets[k].Chords[12] = Placeholder(12)

(***************************************************************************)
(* C3.  parseChordFileName returns the number and the trimmed label of     *)
(* every name of the form <1-2 digits><space><non-empty label>.mid, and an *)
(* error for every other name.  As stated this fails for a label with a    *)
(* line feed, which "." does not match; it holds with such labels counted  *)
(* among the names that give an error.                                     *)
(***************************************************************************)
ParsedAs(s) ==
  /\ ret.err = "nil"
  /\ ret.number = ShapeNumber(s)
  /\ IsTrimOf(ret.name, ShapeLabel(s))

C3_AnyLabel ==
  pc = "return" => IF Shaped(arg) THEN ParsedAs(arg) ELSE ret.err # "nil"

C3_LabelWithoutLineFeed ==
  pc = "return" => IF Parses(arg) THEN ParsedAs(arg) ELSE ret.err # "nil"

C3_Witness ==
  /\ pc = "return"
  /\ Parses(arg)
  /\ ShapeDigits(arg) = 2
  /\ ShapeLabel(arg) # ret.name
  /\ ret.name # <<>>
  /\ ret.number = 10

(***************************************************************************)
(* C4.  A name with two or more spaces between the number and the label    *)
(* does not meet the format, so the file never fills a slot.  The          *)
(* converter takes the extra spaces as the start of the label, trims them  *)
(* and fills the slot.                                                     *)
(***************************************************************************)
TwoSpaces(s) ==
  /\ Shaped(s)
  /\ ShapeLabel(s)[1] = " "
  /\ \E k \in 1..Len(ShapeLabel(s)) : ~Blank(ShapeLabel(s)[k])

C4_TwoSpacesNeverFill ==
  [][AtFile /\ TwoSpaces(fs[ipos].name) => ~(pc' = "inner" /\ chords' # chords)]_vars

(***************************************************************************)
(* C5.  A file whose name parses but whose number is outside 1..12 or      *)
(* whose label is blank changes no slot and causes no error, and the slot  *)
(* it names keeps its placeholder unless an accepted file targets it.      *)
(***************************************************************************)
C5_RejectedPassedOver ==
  [][/\ AtFile /\ Rejected(fs[ipos].name) => PassedOver
     /\ Appended =>
          LET k == Len(chordSets')
              files == Takes(FolderOf(k))
          IN \A r \in Below(FolderOf(k)) :
               /\ ~fs[r].isDir
               /\ Rejected(fs[r].name)
               /\ ShapeNumber(fs[r].name) \in 1..12
               /\ \A f \in files : ShapeNumber(fs[f].name) # ShapeNumber(fs[r].name)
               => chordSets'[k].Chords[ShapeNumber(fs[r].name)]
                    = Placeholder(ShapeNumber(fs[r].name))]_vars

C5_Witness ==
  \E k \in 1..Len(chordSets) :
    \E r, q \in Below(FolderOf(k)) :
      /\ ~fs[r].isDir /\ Rejected(fs[r].name) /\ ShapeNumber(fs[r].name) = 3
      /\ ~fs[q].isDir /\ Rejected(fs[q].name) /\ ShapeNumber(fs[q].name) > 12
      /\ chordSets[k].Chords[3] = Placeholder(3)

(***************************************************************************)
(* C6.  For note-on events with pitches 64, 60, 64, 67 and velocities 80,  *)
(* 80, 0, 90 the notes stored for the chord are [0, 4].  The event for     *)
(* pitch 67 has velocity 90, so its offset 7 is stored too: the notes are  *)
(* [0, 4, 7].                                                              *)
(***************************************************************************)
ExampleEvents ==
  << [key |-> 64, vel |-> 80], [key |-> 60, vel |-> 80],
     [key |-> 64, vel |-> 0], [key |-> 67, vel |-> 90] >>
\* the chord stored by the call that has returned
Stored == ret.result.chords[ret.chordNumber]
Returned(events) == pc = "return" /\ ret.readOk /\ arg = events

C6_ExampleNotes04 == Returned(ExampleEvents) => Stored.Notes = <<0, 4>>

C6_ExampleNotes047 ==
  Returned(ExampleEvents) => ret.result.err = "nil" /\ Stored.Notes = <<0, 4, 7>>

C6_Witness == Returned(ExampleEvents) /\ Stored.Name = <<"a">>

(***************************************************************************)
(* C7.  The notes stored from a readable file are exactly the values       *)
(* key - 60 of the keys that occur in an event with velocity > 0, each     *)
(* once, in strictly ascending order.                                      *)
(***************************************************************************)
StrictlyAscending(notes) == \A i \in 1..(Len(notes) - 1) : notes[i] < notes[i + 1]
SoundingOffsets(events) ==
  {events[i].key - 60 : i \in {j \in 1..Len(events) : events[j].vel > 0}}
NotesOf(events, notes) ==
  /\ StrictlyAscending(notes)
  /\ {notes[i] : i \in 1..Len(notes)} = SoundingOffsets(events)

C7_DistinctSoundingKeys ==
  pc = "return" /\ ret.readOk => ret.result.err = "nil" /\ NotesOf(arg, Stored.Notes)

C7_Witness ==
  /\ pc = "return"
  /\ ret.readOk
  /\ Len(arg) = 4
  /\ arg[1].key = 64 /\ arg[1].vel = 0
  /\ arg[2].key = 64 /\ arg[2].vel > 0
  /\ arg[3].key = 55 /\ arg[3].vel > 0
  /\ arg[4].key = 64 /\ arg[4].vel > 0
  /\ Stored.Notes = <<-5, 4>>

(***************************************************************************)
(* C8.  When the walk ends without error the chord sets collected are      *)
(* those of the first min(n, 16) of the n set folders, in traversal order, *)
(* and a run that ends without error has written exactly one file for      *)
(* each, the k-th set to the file numbered k.                              *)
(***************************************************************************)
Numerals ==
  << <<"1">>, <<"2">>, <<"3">>, <<"4">>, <<"5">>, <<"6">>, <<"7">>, <<"8">>, <<"9">>,
     <<"1", "0">>, <<"1", "1">>, <<"1", "2">>, <<"1", "3">>, <<"1", "4">>, <<"1", "5">>,
     <<"1", "6">>, <<"1", "7">>, <<"1", "8">> >>
FilePrefix ==
  <<"u", "s", "e", "r", "_", "c", "h", "o", "r", "d", "_", "s", "e", "t", "_">>
DotJson == <<".", "j", "s", "o", "n">>
\* file is the output file numbered k: "user_chord_set_0k.json" up to 9, and from
\* 10 on the number, with or without the zero in front
NumberedFile(file, k) ==
  \/ file = FilePrefix \o <<"0">> \o Numerals[k] \o DotJson
  \/ k >= 10 /\ file = FilePrefix \o Numerals[k] \o DotJson

C8_FirstSetsCollected ==
  LET n == Len(Qualifying)
      m == IF n < 16 THEN n ELSE 16
  IN /\ pc \in {"output", "done"} =>
          /\ Len(chordSets) = m
          /\ \A k \in 1..m : chordSets[k].Name = fs[FolderOf(k)].name
     /\ pc = "done" =>
          /\ Len(written) = m
          /\ \A k \in 1..m :
               /\ written[k].data = chordSets[k]
               /\ NumberedFile(written[k].file, k)

C8_Witness ==
  /\ pc = "done"
  /\ Len(Qualifying) = 17
  /\ Len(written) = 16
  /\ written[16].data.Name = fs[16].name

(***************************************************************************)
(* C9.  When several accepted files of a folder target one slot, the chord *)
(* of the slot in the chord set appended is that of the file processed     *)
(* last: its label and its notes.                                          *)
(***************************************************************************)
\* the last of a set of entries in traversal order
Last(files) == CHOOSE f \in files : \A g \in files : g <= f
ChordOf(chord, f) ==
  /\ IsTrimOf(chord.Name, ShapeLabel(fs[f].name))
  /\ NotesOf(fs[f].events, chord.Notes)

C9_LastFileWins ==
  [][Appended =>
       LET k == Len(chordSets')
           files == Takes(FolderOf(k))
       IN \A i \in 1..12 :
            LET same == {f \in files : ShapeNumber(fs[f].name) = i} IN
            Cardinality(same) >= 2 => ChordOf(chordSets'[k].Chords[i], Last(same))]_vars

C9_Witness ==
  \E k \in 1..Len(chordSets) :
    \E f, g \in Takes(FolderOf(k)) :
      /\ f < g
      /\ ShapeNumber(fs[f].name) = 3
      /\ ShapeNumber(fs[g].name) = 3
      /\ ShapeLabel(fs[f].name) = <<"b">>
      /\ chordSets[k].Chords[3].Name = <<"a">>
      /\ chordSets[k].Chords[3].Notes = <<0, 4, 7>>

(***************************************************************************)
(* C10.  When the MIDI content of a file with an accepted name does not    *)
(* read, processOneSetFolder returns the error and appends nothing, and    *)
(* Run returns the error: nothing more happens, no later folder is built.  *)
(***************************************************************************)
C10_ReadErrorEndsRun ==
  [][/\ AtFile /\ Accepted(fs[ipos].name) /\ ~fs[ipos].ok =>
          /\ pc' = "failed"
          /\ err' = "failed to read MIDI file"
          /\ chordSets' = chordSets
          /\ written' = written
     /\ pc = "failed" => vars' = vars]_vars

C10_Witness ==
  /\ pc = "failed"
  /\ err = "failed to read MIDI file"
  /\ \E j \in (ipos + 1)..Len(fs) : IsQualifying(fs[j])

(***************************************************************************)
(* C11.  The driver invokes the builder for an entry of the walk exactly   *)
(* when the entry is a directory, is not the root, has a name of at most   *)
(* 10 characters and is not named "sets"; no other entry adds a chord set. *)
(* The converter compares the name's length in bytes, so a folder whose    *)
(* name has 10 characters or fewer but more than 10 bytes is left out.     *)
(***************************************************************************)
\* a directory below the root with a name of at most 10 characters, not "sets"
Eligible(e) == e.isDir /\ Len(e.name) <= 10 /\ e.name # <<"s", "e", "t", "s">>
\* the callback of the driver is about to run on the root, on an entry below it
AtRoot == pc = "outer" /\ opos = 0
AtEntry == pc = "outer" /\ opos \in 1..Len(fs)
\* the builder is invoked: it prints its line
Invoked == Len(stdout') = Len(stdout) + 1

C11_BuilderOnShortFolders ==
  [][/\ AtRoot => ~Invoked /\ ~Appended
     /\ AtEntry => (Invoked <=> Eligible(fs[opos]))
     /\ Invoked => AtEntry /\ stdout' = Append(stdout, fs[opos].name)
     /\ Appended => Eligible(fs[opos])]_vars

(***************************************************************************)
(* C12.  There are never more than 16 chord sets, and once there are 16    *)
(* every later set folder leaves them as they are and gives no error,      *)
(* whatever files it holds: its files, walked by the driver alone, are     *)
(* never parsed or read.                                                   *)
(***************************************************************************)
C12_SixteenAtMost ==
  [][/\ Len(chordSets') <= 16
     /\ Len(chordSets) = 16 =>
          /\ chordSets' = chordSets
          /\ pc' # "inner"
          /\ AtEntry /\ (fs[opos].isDir => fs[opos].ok) =>
               /\ pc' = "outer"
               /\ opos' = opos + 1
               /\ err' = "nil"]_vars

\* a run that ended without error after 16 chord sets, with one more set folder
\* that holds a .mid file whose name does not parse
C12_Witness ==
  /\ pc = "done"
  /\ Len(chordSets) = 16
  /\ \E j \in 1..Len(fs) :
       /\ IsQualifying(fs[j])
       /\ j > FolderOf(16)
       /\ \E f \in Below(j) :
            ~fs[f].isDir /\ EndsInDotMid(fs[f].name) /\ ~Shaped(fs[f].name)

(***************************************************************************)
(* C13.  The number in an output file name is always two digits: a zero    *)
(* and one digit for positions 1..9, the two digits of the position for    *)
(* 10..16; so the names are pairwise distinct.  The converter writes a     *)
(* zero and then the position, whatever its size: "010" .. "016" from 10   *)
(* on.  The names are pairwise distinct all the same.                      *)
(***************************************************************************)
TwoDigits == [k \in 1..16 |-> IF k < 10 THEN <<"0">> \o Numerals[k] ELSE Numerals[k]]
ZeroThenPosition == [k \in 1..16 |-> <<"0">> \o Numerals[k]]
\* the files written are named by number and no two have one name
NamedBy(number) ==
  /\ \A k \in 1..Len(written) : written[k].file = FilePrefix \o number[k] \o DotJson
  /\ \A j, k \in 1..Len(written) : j # k => written[j].file # written[k].file

C13_TwoDigitNumber == NamedBy(TwoDigits)

C13_ZeroThenPosition ==
  /\ NamedBy(ZeroThenPosition)
  /\ \A k \in 1..Len(written) :
       Len(written[k].file) = Len(FilePrefix) + (IF k < 10 THEN 2 ELSE 3) + Len(DotJson)

C13_Witness ==
  /\ Len(written) = 16
  /\ written[9].file = FilePrefix \o <<"0", "9">> \o DotJson
  /\ written[16].file = FilePrefix \o <<"0", "1", "6">> \o DotJson

(***************************************************************************)
(* C14.  Both walks go down into subfolders.  When the walk has ended      *)
(* without error, every accepted file at any depth below a collected       *)
(* folder S has filled its slot in the chord set of S (the last such file  *)
(* of a slot gives the chord), and every directory D below S with a name   *)
(* of at most 10 characters, not "sets", is collected itself after S,      *)
(* unless the 16 chord sets are reached first.  The converter leaves out   *)
(* a subfolder whose name has more than 10 bytes (see C11).                *)
(***************************************************************************)
C14_SubfoldersWalked ==
  pc \in {"output", "done"} =>
    \A k \in 1..Len(chordSets) :
      LET S == FolderOf(k) IN
      /\ \A f \in Takes(S) :
           LET i == ShapeNumber(fs[f].name)
               same == {g \in Takes(S) : ShapeNumber(fs[g].name) = i}
           IN ChordOf(chordSets[k].Chords[i], Last(same))
      /\ \A D \in Below(S) :
           Eligible(fs[D]) =>
             \/ Len(chordSets) = 16
             \/ \E j \in (k + 1)..Len(chordSets) :
                  FolderOf(j) = D /\ chordSets[j].Name = fs[D].name

(***************************************************************************)
(* C15.  No file is written before the whole tree has been walked and      *)
(* every set folder (up to 16) built without error; a run that fails       *)
(* before its output step has written no file, whatever was built before.  *)
(***************************************************************************)
C15_NoFileBeforeWalkEnds ==
  /\ written # <<>> =>
       /\ pc \in {"output", "done", "failed"}
       /\ opos = Len(fs) + 1
       /\ Len(chordSets) = IF Len(Qualifying) < 16 THEN Len(Qualifying) ELSE 16
  /\ pc \in {"start", "outer", "inner"} => written = <<>>
  /\ pc = "failed" /\ err # "error writing JSON file" => written = <<>>

\* a run that failed in a folder after another folder was built
C15_Witness ==
  /\ pc = "failed"
  /\ err \in {"invalid file name", "failed to read MIDI file"}
  /\ Len(chordSets) >= 1
  /\ written = <<>>

====
